---- MODULE Spec2Model ----
(***************************************************************************)
(* InventoryManager of cleaned_inventory_system.py: an insertion-ordered   *)
(* dict from item name to quantity, with add/remove/query operations and   *)
(* a JSON file as persistence.                                             *)
(*                                                                         *)
(* Python values are records [t, s, n, m]: t is the type name, s the code  *)
(* points of a str, n the number of an int or bool, m the entries [k, q]   *)
(* of a dict in insertion order (k the code points of the key, q a value). *)
(* A file's text is a sequence of JSON tokens; the tokens are braces,      *)
(* colon, comma, strings, whole numbers and true/false/null.               *)
(* add_item is called as main() calls it, without a logs list: the list    *)
(* it then appends to is local to the call.                                *)
(***************************************************************************)
EXTENDS Integers, Sequences, FiniteSets, TLC

\* Largest total quantity add_item is let to raise the table to.
MaxStock == 2

\* ---------------------------------------------------------------- values
PyStr(s) == [t |-> "str", s |-> s, n |-> 0, m |-> <<>>]
PyInt(n) == [t |-> "int", s |-> <<>>, n |-> n, m |-> <<>>]
PyBool(n) == [t |-> "bool", s |-> <<>>, n |-> n, m |-> <<>>]
PyNone == [t |-> "NoneType", s |-> <<>>, n |-> 0, m |-> <<>>]
PyDict(m) == [t |-> "dict", s |-> <<>>, n |-> 0, m |-> m]

\* isinstance(v, str) / isinstance(v, int); bool is a subclass of int.
isinstance_str(v) == v.t = "str"
isinstance_int(v) == v.t \in {"int", "bool"}

\* The code points str.strip() removes: those str.isspace() is true of.
Whitespace ==
    (9..13) \cup (28..32) \cup {133, 160, 5760} \cup (8192..8202)
    \cup {8232, 8233, 8239, 8287, 12288}

RECURSIVE lstrip(_)
lstrip(s) == IF s # <<>> /\ Head(s) \in Whitespace THEN lstrip(Tail(s)) ELSE s

RECURSIVE rstrip(_)
rstrip(s) ==
    IF s # <<>> /\ s[Len(s)] \in Whitespace
    THEN rstrip(SubSeq(s, 1, Len(s) - 1))
    ELSE s

\* str.strip()
strip(s) == rstrip(lstrip(s))

\* sub in s, for two str
is_substring(sub, s) ==
    \E i \in 0..(Len(s) - Len(sub)) : SubSeq(s, i + 1, i + Len(sub)) = sub

\* The item names and the arguments the calls are made with: "a", " b",
\* "", " \r", 123 and -1..2, True, "ten".
apple == <<97>>
banana == <<32, 98>>
blank == <<32, 13>>
ItemArgs == {PyStr(apple), PyStr(banana), PyStr(<<>>), PyStr(blank), PyInt(123)}
QtyArgs == {PyInt(n) : n \in -1..2} \cup {PyBool(1), PyStr(<<116, 101, 110>>)}

\* check_low_items(threshold=5)
DefaultThreshold == 5
Thresholds == (0..3) \cup {DefaultThreshold}

\* ------------------------------------------------------------------ dict
\* The operators below take the entries m of a dict.
\* key in d
dict_contains(m, key) == \E i \in 1..Len(m) : m[i].k = key

\* d.get(key, default)
dict_get(m, key, default) ==
    IF dict_contains(m, key)
    THEN m[CHOOSE i \in 1..Len(m) : m[i].k = key].q
    ELSE default

\* d[key] = v: an existing key keeps its place, a new key goes last.
dict_set(m, key, v) ==
    IF dict_contains(m, key)
    THEN [i \in 1..Len(m) |-> IF m[i].k = key THEN [k |-> key, q |-> v] ELSE m[i]]
    ELSE Append(m, [k |-> key, q |-> v])

\* del d[key]
dict_del(m, key) == SelectSeq(m, LAMBDA e : e.k # key)

\* The sum of the numbers held.
RECURSIVE total_from(_, _)
total_from(m, i) == IF i > Len(m) THEN 0 ELSE m[i].q.n + total_from(m, i + 1)

total(d) == total_from(d.m, 1)

\* hash(v) raises TypeError for a dict; str, int, bool and None hash.
hashable(v) == v.t # "dict"

\* item in self.stock_data: exc is the exception the test raises, b its
\* result.  A dict hashes the item first; its keys are str, and a hashable
\* value that is not a str equals none of them.  In a str the test is the
\* substring test and takes only a str; a number is no container.
item_in(d, item) ==
    IF d.t = "dict"
    THEN IF ~hashable(item)
         THEN [exc |-> "TypeError", b |-> FALSE]
         ELSE [exc |-> "none", b |-> isinstance_str(item) /\ dict_contains(d.m, item.s)]
    ELSE IF d.t = "str"
    THEN IF isinstance_str(item)
         THEN [exc |-> "none", b |-> is_substring(item.s, d.s)]
         ELSE [exc |-> "TypeError", b |-> FALSE]
    ELSE [exc |-> "TypeError", b |-> FALSE]

\* ------------------------------------------------------------------ json
Tok(t, s, n) == [t |-> t, s |-> s, n |-> n]
LBrace == Tok("{", <<>>, 0)
RBrace == Tok("}", <<>>, 0)
Colon == Tok(":", <<>>, 0)
Comma == Tok(",", <<>>, 0)
StrTok(s) == Tok("str", s, 0)
NumTok(n) == Tok("num", <<>>, n)
TrueTok == Tok("true", <<>>, 0)
FalseTok == Tok("false", <<>>, 0)
NullTok == Tok("null", <<>>, 0)

RECURSIVE dump_value(_)
RECURSIVE dump_members(_, _)
dump_members(m, i) ==
    IF i > Len(m) THEN <<>>
    ELSE (IF i > 1 THEN <<Comma>> ELSE <<>>)
         \o <<StrTok(m[i].k), Colon>> \o dump_value(m[i].q)
         \o dump_members(m, i + 1)

dump_value(v) ==
    IF v.t = "int" THEN <<NumTok(v.n)>>
    ELSE IF v.t = "str" THEN <<StrTok(v.s)>>
    ELSE IF v.t = "bool" THEN (IF v.n = 1 THEN <<TrueTok>> ELSE <<FalseTok>>)
    ELSE IF v.t = "NoneType" THEN <<NullTok>>
    ELSE <<LBrace>> \o dump_members(v.m, 1) \o <<RBrace>>

\* json.dump(d, f, indent=2): the text written, as tokens.
json_dump(d) == dump_value(d)

ParseFail == [ok |-> FALSE, obj |-> PyNone, next |-> 0]
ParseError == [ok |-> FALSE, obj |-> PyNone]

\* parse_value reads one JSON value from token i on, parse_members the
\* members of an object up to its closing brace; next is the token after.
\* A repeated key keeps its first place and its last value.
RECURSIVE parse_value(_, _)
RECURSIVE parse_members(_, _, _)
parse_members(text, i, m) ==
    IF i + 2 > Len(text) THEN ParseFail
    ELSE IF text[i].t # "str" \/ text[i + 1].t # ":" THEN ParseFail
    ELSE LET r == parse_value(text, i + 2) IN
         IF ~r.ok \/ r.next > Len(text) THEN ParseFail
         ELSE LET m2 == dict_set(m, text[i].s, r.obj) IN
              IF text[r.next].t = "}"
              THEN [ok |-> TRUE, obj |-> PyDict(m2), next |-> r.next + 1]
              ELSE IF text[r.next].t = ","
              THEN parse_members(text, r.next + 1, m2)
              ELSE ParseFail

parse_value(text, i) ==
    IF i > Len(text) THEN ParseFail
    ELSE IF text[i].t = "num" THEN [ok |-> TRUE, obj |-> PyInt(text[i].n), next |-> i + 1]
    ELSE IF text[i].t = "str" THEN [ok |-> TRUE, obj |-> PyStr(text[i].s), next |-> i + 1]
    ELSE IF text[i].t = "true" THEN [ok |-> TRUE, obj |-> PyBool(1), next |-> i + 1]
    ELSE IF text[i].t = "false" THEN [ok |-> TRUE, obj |-> PyBool(0), next |-> i + 1]
    ELSE IF text[i].t = "null" THEN [ok |-> TRUE, obj |-> PyNone, next |-> i + 1]
    ELSE IF text[i].t = "{"
    THEN IF i + 1 <= Len(text) /\ text[i + 1].t = "}"
         THEN [ok |-> TRUE, obj |-> PyDict(<<>>), next |-> i + 2]
         ELSE parse_members(text, i + 1, <<>>)
    ELSE ParseFail

\* json.load(f): any JSON value; ok is FALSE when it raises JSONDecodeError
\* (no value, or text after the value).
json_load(text) ==
    LET r == parse_value(text, 1) IN
    IF r.ok /\ r.next = Len(text) + 1 THEN [ok |-> TRUE, obj |-> r.obj]
    ELSE ParseError

\* ----------------------------------------------------------------- files
\* inventory.json is the default path; NoDirPath lies in a directory that
\* does not exist, so open(.., "w") and open(.., "r") both fail on it.
InventoryJson == "inventory.json"
NoDirPath == "missing_dir/inventory.json"
Paths == {InventoryJson, NoDirPath}

NoFile == [exists |-> FALSE, text |-> <<>>]
File(text) == [exists |-> TRUE, text |-> text]

\* What inventory.json may hold before the first call: nothing, or a text
\* this program did not write.  The texts that parse are objects of string
\* keys and whole numbers, the shape the format's description takes every
\* file to have: {" ": 1} and {"a": 1, "a": 2}.  The other two do not parse:
\* {"a": 1 and the empty text.
BlankKeyText == <<LBrace, StrTok(<<32>>), Colon, NumTok(1), RBrace>>
RepeatedKeyText ==
    <<LBrace, StrTok(apple), Colon, NumTok(1), Comma,
      StrTok(apple), Colon, NumTok(2), RBrace>>
TruncatedText == <<LBrace, StrTok(apple), Colon, NumTok(1)>>
EmptyText == <<>>
ForeignTexts == {BlankKeyText, RepeatedKeyText, TruncatedText, EmptyText}

VARIABLES stock_data, files, call, raised, ret, pre

vars == <<stock_data, files, call, raised, ret, pre>>

Call(op, item, qty, path, threshold) ==
    [op |-> op, item |-> item, qty |-> qty, path |-> path, threshold |-> threshold]

\* What a call returns: None, True, a value of the table, a list of names.
RetNone == [t |-> "NoneType", v |-> PyNone, l |-> <<>>]
RetTrue == [t |-> "bool", v |-> PyBool(1), l |-> <<>>]
RetValue(v) == [t |-> "value", v |-> v, l |-> <<>>]
RetList(l) == [t |-> "list", v |-> PyNone, l |-> l]

\* __init__, before any call.
Init ==
    /\ stock_data = PyDict(<<>>)
    /\ \E c \in {NoFile} \cup {File(x) : x \in ForeignTexts} :
           files = [p \in Paths |-> IF p = InventoryJson THEN c ELSE NoFile]
    /\ call = Call("__init__", PyNone, PyNone, "", 0)
    /\ raised = "none"
    /\ ret = RetNone
    /\ pre = PyDict(<<>>)

\* -------------------------------------------------------------- add_item
\* Faulty variant: the type of qty is checked before the item name is.
add_item_raises_qty_first(d, item, qty) ==
    IF ~isinstance_str(item) THEN "TypeError"
    ELSE IF ~isinstance_int(qty) THEN "TypeError"
    ELSE IF strip(item.s) = <<>> THEN "ValueError"
    ELSE IF qty.n < 0 THEN "ValueError"
    ELSE IF d.t # "dict" THEN "AttributeError"
    ELSE IF ~isinstance_int(dict_get(d.m, item.s, PyInt(0))) THEN "TypeError"
    ELSE "none"

\* The exception add_item raises, "none" when it returns: the four checks,
\* then self.stock_data.get (only a dict has it), then the sum (only a
\* number can be added to).
add_item_raises(d, item, qty) ==
    IF ~isinstance_str(item) THEN "TypeError"
    ELSE IF strip(item.s) = <<>> THEN "ValueError"
    ELSE IF ~isinstance_int(qty) THEN "TypeError"
    ELSE IF qty.n < 0 THEN "ValueError"
    ELSE IF d.t # "dict" THEN "AttributeError"
    ELSE IF ~isinstance_int(dict_get(d.m, item.s, PyInt(0))) THEN "TypeError"
    ELSE "none"

\* Faulty variant: the quantity is stored, not added to what is held.
add_item_stock_overwrite(d, item, qty) == PyDict(dict_set(d.m, item.s, PyInt(qty.n)))

\* self.stock_data after a call that raised nothing.
add_item_stock(d, item, qty) ==
    PyDict(dict_set(d.m, item.s, PyInt(dict_get(d.m, item.s, PyInt(0)).n + qty.n)))

add_item(item, qty) ==
    LET exc == add_item_raises(stock_data, item, qty) IN
    /\ exc = "none" => total(stock_data) + qty.n <= MaxStock
    /\ stock_data' = IF exc = "none" THEN add_item_stock(stock_data, item, qty)
                     ELSE stock_data
    /\ raised' = exc
    /\ ret' = IF exc = "none" THEN RetTrue ELSE RetNone
    /\ call' = Call("add_item", item, qty, "", 0)
    /\ pre' = stock_data
    /\ UNCHANGED files

\* ----------------------------------------------------------- remove_item
\* Faulty variant: an item that is not held is passed over in silence.
remove_item_raises_silent(d, item, qty) ==
    IF ~isinstance_int(qty) THEN "ValueError"
    ELSE IF qty.n < 0 THEN "ValueError"
    ELSE IF item_in(d, item).exc # "none" THEN item_in(d, item).exc
    ELSE IF d.t # "dict" THEN "TypeError"
    ELSE IF ~isinstance_int(dict_get(d.m, item.s, PyInt(0))) THEN "TypeError"
    ELSE "none"

\* The exception remove_item raises: the check of qty, the lookup, then
\* self.stock_data[item] -= qty (a str takes no str index, and only a
\* number can be taken from).
remove_item_raises(d, item, qty) ==
    IF ~isinstance_int(qty) THEN "ValueError"
    ELSE IF qty.n < 0 THEN "ValueError"
    ELSE IF item_in(d, item).exc # "none" THEN item_in(d, item).exc
    ELSE IF ~item_in(d, item).b THEN "KeyError"
    ELSE IF d.t # "dict" THEN "TypeError"
    ELSE IF ~isinstance_int(dict_get(d.m, item.s, PyInt(0))) THEN "TypeError"
    ELSE "none"

\* Faulty variant: the entry is deleted only below zero.
remove_item_stock_keeps_zero(d, item, qty) ==
    LET left == dict_get(d.m, item.s, PyInt(0)).n - qty.n
        m2 == dict_set(d.m, item.s, PyInt(left))
    IN PyDict(IF left < 0 THEN dict_del(m2, item.s) ELSE m2)

\* self.stock_data after a call that raised nothing.
remove_item_stock(d, item, qty) ==
    LET left == dict_get(d.m, item.s, PyInt(0)).n - qty.n
        m2 == dict_set(d.m, item.s, PyInt(left))
    IN PyDict(IF left <= 0 THEN dict_del(m2, item.s) ELSE m2)

remove_item(item, qty) ==
    LET exc == remove_item_raises(stock_data, item, qty) IN
    /\ stock_data' = IF exc = "none" THEN remove_item_stock(stock_data, item, qty)
                     ELSE stock_data
    /\ raised' = exc
    /\ ret' = IF exc = "none" THEN RetTrue ELSE RetNone
    /\ call' = Call("remove_item", item, qty, "", 0)
    /\ pre' = stock_data
    /\ UNCHANGED files

\* --------------------------------------------------------------- get_qty
\* The lookup, then self.stock_data[item].
get_qty_raises(d, item) ==
    IF item_in(d, item).exc # "none" THEN item_in(d, item).exc
    ELSE IF ~item_in(d, item).b THEN "KeyError"
    ELSE IF d.t # "dict" THEN "TypeError"
    ELSE "none"

\* The value returned, for a call that raises nothing.
get_qty_value(d, item) == dict_get(d.m, item.s, PyNone)

get_qty(item) ==
    LET exc == get_qty_raises(stock_data, item) IN
    /\ raised' = exc
    /\ ret' = IF exc = "none" THEN RetValue(get_qty_value(stock_data, item)) ELSE RetNone
    /\ call' = Call("get_qty", item, PyNone, "", 0)
    /\ pre' = stock_data
    /\ UNCHANGED <<stock_data, files>>

\* ------------------------------------------------------------- load_data
load_data_raises(f) ==
    IF ~f.exists THEN "none"
    ELSE IF ~json_load(f.text).ok THEN "JSONDecodeError"
    ELSE "none"

\* Faulty variant: a file that does not parse empties the table, as a missing one does.
load_data_stock_reset(d, f) ==
    IF ~f.exists THEN PyDict(<<>>)
    ELSE IF ~json_load(f.text).ok THEN PyDict(<<>>)
    ELSE json_load(f.text).obj

\* Faulty variant: a missing file leaves the table as it was.
load_data_stock_keep(d, f) ==
    IF ~f.exists THEN d
    ELSE IF ~json_load(f.text).ok THEN d
    ELSE json_load(f.text).obj

\* self.stock_data after load_data: whatever value the file holds.
load_data_stock(d, f) ==
    IF ~f.exists THEN PyDict(<<>>)
    ELSE IF ~json_load(f.text).ok THEN d
    ELSE json_load(f.text).obj

load_data(path) ==
    /\ stock_data' = load_data_stock(stock_data, files[path])
    /\ raised' = load_data_raises(files[path])
    /\ ret' = RetNone
    /\ call' = Call("load_data", PyNone, PyNone, path, 0)
    /\ pre' = stock_data
    /\ UNCHANGED files

\* ------------------------------------------------------------- save_data
\* open(file, "w") fails where the directory does not exist.
save_data_raises(path) == IF path = NoDirPath THEN "IOError" ELSE "none"

\* Faulty variant: the file is opened with "a", so the text goes after what is there.
save_data_file_append(d, path, f) ==
    IF path = NoDirPath THEN f ELSE File(f.text \o json_dump(d))

save_data_file(d, path, f) == IF path = NoDirPath THEN f ELSE File(json_dump(d))

save_data(path) ==
    /\ files' = [files EXCEPT ![path] = save_data_file(stock_data, path, files[path])]
    /\ raised' = save_data_raises(path)
    /\ ret' = RetNone
    /\ call' = Call("save_data", PyNone, PyNone, path, 0)
    /\ pre' = stock_data
    /\ UNCHANGED stock_data

\* ------------------------------------------------------- check_low_items
\* self.stock_data.items() needs a dict, and quantity < threshold a number.
check_low_items_raises(d, threshold) ==
    IF d.t # "dict" THEN "AttributeError"
    ELSE IF \E i \in 1..Len(d.m) : ~isinstance_int(d.m[i].q) THEN "TypeError"
    ELSE "none"

RECURSIVE low_items_from(_, _, _)
low_items_from(m, i, threshold) ==
    IF i > Len(m) THEN <<>>
    ELSE (IF m[i].q.n < threshold THEN <<m[i].k>> ELSE <<>>)
         \o low_items_from(m, i + 1, threshold)

RECURSIVE low_items_from_le(_, _, _)
low_items_from_le(m, i, threshold) ==
    IF i > Len(m) THEN <<>>
    ELSE (IF m[i].q.n <= threshold THEN <<m[i].k>> ELSE <<>>)
         \o low_items_from_le(m, i + 1, threshold)

\* Faulty variant: the comparison is <=.
check_low_items_result_le(d, threshold) == low_items_from_le(d.m, 1, threshold)

\* The list returned, for a call that raises nothing.
check_low_items_result(d, threshold) == low_items_from(d.m, 1, threshold)

check_low_items(threshold) ==
    LET exc == check_low_items_raises(stock_data, threshold) IN
    /\ ret' = IF exc = "none" THEN RetList(check_low_items_result(stock_data, threshold))
              ELSE RetNone
    /\ raised' = exc
    /\ call' = Call("check_low_items", PyNone, PyNone, "", threshold)
    /\ pre' = stock_data
    /\ UNCHANGED <<stock_data, files>>

\* ------------------------------------------------------------------ spec
AddStep == \E item \in ItemArgs, qty \in QtyArgs : add_item(item, qty)
RemoveStep == \E item \in ItemArgs, qty \in QtyArgs : remove_item(item, qty)
GetStep == \E item \in ItemArgs : get_qty(item)
LoadStep == \E path \in Paths : load_data(path)
SaveStep == \E path \in Paths : save_data(path)
LowStep == \E threshold \in Thresholds : check_low_items(threshold)

Next == AddStep \/ RemoveStep \/ GetStep \/ LoadStep \/ SaveStep \/ LowStep

Spec == Init /\ [][Next]_vars

\* With files of the shape above, stock_data stays a dict of whole numbers.
TypeOK ==
    /\ stock_data.t = "dict"
    /\ \A i \in 1..Len(stock_data.m) : stock_data.m[i].q.t = "int"
    /\ \A i, j \in 1..Len(stock_data.m) :
           stock_data.m[i].k = stock_data.m[j].k => i = j
    /\ raised \in {"none", "TypeError", "ValueError", "KeyError", "IOError",
                   "JSONDecodeError"}

\* ---------------------------------------------------------------- claims
keys(d) == {d.m[i].k : i \in 1..Len(d.m)}

\* The mapping a dict holds, whatever the order of its entries.
entries(d) == {<<d.m[i].k, d.m[i].q>> : i \in 1..Len(d.m)}

\* The number held for key, 0 when it is not held.
held(d, key) == dict_get(d.m, key, PyInt(0)).n

\* Every code point of s is whitespace (so is the empty string).
IsBlank(s) == \A i \in 1..Len(s) : s[i] \in Whitespace

IsInteger(v) == v.t \in {"int", "bool"}

\* Every item but key is held after the call exactly as before it.
OthersUnchanged(key) ==
    \A k \in keys(pre) \cup keys(stock_data) :
        k # key => /\ k \in keys(pre) <=> k \in keys(stock_data)
                   /\ dict_get(pre.m, k, PyNone) = dict_get(stock_data.m, k, PyNone)

\* C1: every quantity held in stock_data is strictly greater than zero.
C1_QuantitiesPositive == \A i \in 1..Len(stock_data.m) : stock_data.m[i].q.n > 0

\* C2: add_item with a non-blank str item and an integer qty >= 0 returns
\* True, and afterwards get_qty(item) is the quantity held before (0 if the
\* item was absent) plus qty; every other item is unchanged.
C2_AddAddsQuantity ==
    ( /\ call.op = "add_item"
      /\ call.item.t = "str" /\ ~IsBlank(call.item.s)
      /\ IsInteger(call.qty) /\ call.qty.n >= 0 )
    => /\ raised = "none"
       /\ ret = RetTrue
       /\ get_qty_raises(stock_data, call.item) = "none"
       /\ get_qty_value(stock_data, call.item)
              = PyInt((IF call.item.s \in keys(pre) THEN held(pre, call.item.s) ELSE 0)
                      + call.qty.n)
       /\ OthersUnchanged(call.item.s)

\* An item held with 1 got 1 more, next to another item.
C2_Witness ==
    /\ call.op = "add_item" /\ raised = "none"
    /\ call.item.s \in keys(pre) /\ held(pre, call.item.s) = 1
    /\ call.qty = PyInt(1)
    /\ Len(stock_data.m) = 2

\* C3: remove_item of a held item with quantity q and an integer r >= 0
\* returns True; afterwards the item is absent if r >= q (get_qty raises
\* KeyError) and is held with q - r if r < q; every other item is unchanged.
C3_RemoveReduces ==
    ( /\ call.op = "remove_item"
      /\ call.item.t = "str" /\ call.item.s \in keys(pre)
      /\ IsInteger(call.qty) /\ call.qty.n >= 0 )
    => LET q == held(pre, call.item.s)
           r == call.qty.n
       IN /\ raised = "none"
          /\ ret = RetTrue
          /\ r >= q => get_qty_raises(stock_data, call.item) = "KeyError"
          /\ r < q => /\ get_qty_raises(stock_data, call.item) = "none"
                      /\ get_qty_value(stock_data, call.item) = PyInt(q - r)
          /\ OthersUnchanged(call.item.s)

\* 1 was removed from an item held with 2, next to another item.
C3_Witness ==
    /\ call.op = "remove_item" /\ raised = "none"
    /\ call.item.s \in keys(pre) /\ held(pre, call.item.s) = 2
    /\ call.qty = PyInt(1)
    /\ Len(stock_data.m) = 2

\* C4 as claimed: remove_item of an item that is not held raises KeyError
\* whatever qty is, and leaves the table unchanged.
C4_AbsentAlwaysKeyError ==
    ( /\ call.op = "remove_item"
      /\ ~(call.item.t = "str" /\ call.item.s \in keys(pre)) )
    => /\ raised = "KeyError"
       /\ stock_data = pre

\* C4 as amended: remove_item of an item that is not held (a str, or another
\* hashable value such as a number) raises KeyError for every integer
\* qty >= 0 (0 included) and ValueError for a qty that is negative or not an
\* integer; in both cases the table is unchanged.
C4_AbsentKeyErrorAfterQtyCheck ==
    ( /\ call.op = "remove_item"
      /\ ~(call.item.t = "str" /\ call.item.s \in keys(pre)) )
    => /\ raised = IF IsInteger(call.qty) /\ call.qty.n >= 0
                   THEN "KeyError" ELSE "ValueError"
       /\ stock_data = pre

\* An item that is not held was removed with qty 0 from a table that holds
\* another item.
C4_Witness ==
    /\ call.op = "remove_item" /\ raised = "KeyError"
    /\ call.item.t = "str" /\ call.item.s \notin keys(pre)
    /\ call.qty = PyInt(0)
    /\ Len(pre.m) > 0

\* C5: add_item checks, in this order: item not a str -> TypeError; item
\* blank -> ValueError; qty not an integer -> TypeError; qty negative ->
\* ValueError.  The first check that fails decides the exception, and a call
\* that fails leaves the table as it was.
C5_AddValidationOrder ==
    call.op = "add_item"
    => /\ call.item.t # "str" => raised = "TypeError"
       /\ (call.item.t = "str" /\ IsBlank(call.item.s)) => raised = "ValueError"
       /\ (call.item.t = "str" /\ ~IsBlank(call.item.s) /\ ~IsInteger(call.qty))
              => raised = "TypeError"
       /\ ( /\ call.item.t = "str" /\ ~IsBlank(call.item.s)
            /\ IsInteger(call.qty) /\ call.qty.n < 0 ) => raised = "ValueError"
       /\ raised # "none" => stock_data = pre

\* A blank item (a space and a carriage return) came with a qty that is not
\* an integer, and the table held something.
C5_Witness ==
    /\ call.op = "add_item"
    /\ call.item = PyStr(blank) /\ call.qty.t = "str"
    /\ raised = "ValueError"
    /\ Len(pre.m) > 0

\* C6: save_data does not change the table, and a load_data of the same path
\* right after a save_data that succeeded returns with the table holding the
\* keys and quantities it held before the save.
C6_RoundTrip ==
    [][ /\ call'.op = "save_data" => stock_data' = stock_data
        /\ ( /\ call.op = "save_data" /\ raised = "none"
             /\ call'.op = "load_data" /\ call'.path = call.path )
           => /\ raised' = "none"
              /\ stock_data'.t = "dict"
              /\ entries(stock_data') = entries(pre)
              /\ entries(stock_data') = entries(stock_data) ]_vars

\* A table of two items, all quantities positive, was loaded from a file
\* holding what save_data writes for it.
C6_Witness ==
    /\ call.op = "load_data" /\ raised = "none"
    /\ files[call.path] = File(json_dump(pre))
    /\ Len(pre.m) = 2 /\ \A i \in 1..Len(pre.m) : pre.m[i].q.n > 0
    /\ entries(stock_data) = entries(pre)

\* C7: load_data of a file whose text is malformed raises JSONDecodeError
\* and leaves the table as it was.
C7_MalformedLeavesTable ==
    ( /\ call.op = "load_data"
      /\ files[call.path].exists
      /\ files[call.path].text \in {TruncatedText, EmptyText} )
    => /\ raised = "JSONDecodeError"
       /\ stock_data = pre

\* A malformed file was loaded into a table of two items.
C7_Witness ==
    /\ call.op = "load_data" /\ raised = "JSONDecodeError"
    /\ files[call.path].text = TruncatedText
    /\ Len(pre.m) = 2

\* C8: load_data of a path where no file exists returns without raising and
\* leaves the table empty, whatever it held.
C8_MissingFileEmptiesTable ==
    (call.op = "load_data" /\ ~files[call.path].exists)
    => /\ raised = "none"
       /\ stock_data = PyDict(<<>>)

\* A missing file was loaded into a table of two items.
C8_Witness ==
    /\ call.op = "load_data" /\ ~files[call.path].exists
    /\ Len(pre.m) = 2
    /\ stock_data = PyDict(<<>>)

cherry == <<99>>

ExampleTable ==
    PyDict(<< [k |-> apple, q |-> PyInt(10)], [k |-> banana, q |-> PyInt(3)],
              [k |-> cherry, q |-> PyInt(5)] >>)

\* The place of key in d.
index(d, key) == CHOOSE i \in 1..Len(d.m) : d.m[i].k = key

\* C9: check_low_items(threshold) returns the items held with a quantity
\* strictly below threshold, each once, in the order of the table, and does
\* not change the table; on {apple: 10, banana: 3, cherry: 5} with threshold
\* 5 it returns [banana].
C9_LowItems ==
    /\ call.op = "check_low_items"
       => /\ raised = "none"
          /\ ret.t = "list"
          /\ \A i \in 1..Len(ret.l) :
                 ret.l[i] \in keys(stock_data)
                 /\ held(stock_data, ret.l[i]) < call.threshold
          /\ \A j \in 1..Len(stock_data.m) :
                 stock_data.m[j].q.n < call.threshold
                 => Cardinality({i \in 1..Len(ret.l) : ret.l[i] = stock_data.m[j].k}) = 1
          /\ \A i, j \in 1..Len(ret.l) :
                 i < j => index(stock_data, ret.l[i]) < index(stock_data, ret.l[j])
          /\ stock_data = pre
    /\ check_low_items_raises(ExampleTable, DefaultThreshold) = "none"
    /\ check_low_items_result(ExampleTable, DefaultThreshold) = <<banana>>

\* Of two items below the threshold the later one of the table came second,
\* and an item held with exactly the threshold was left out.
C9_Witness ==
    /\ call.op = "check_low_items"
    /\ ret.l = <<banana, apple>>
    /\ Len(stock_data.m) = 3
    /\ \E j \in 1..Len(stock_data.m) : stock_data.m[j].q.n = call.threshold

\* C10: every key of stock_data is a str that is not empty once its
\* whitespace is stripped.
C10_KeysNonBlank == \A i \in 1..Len(stock_data.m) : strip(stock_data.m[i].k) # <<>>
====
